---------------------------- MODULE Spec2Model ----------------------------
(***************************************************************************)
(* TrackMaster backend: the audio feature extractor                        *)
(* (backend/app/data/feature_vector_extract.py), the Mongo client          *)
(* (backend/app/services/mongoclient.py) and the /classify_genre route     *)
(* (backend/app/routes.py).                                                *)
(*                                                                         *)
(* Scaling.  Sample rates are counted in units of 11025 Hz (22050 Hz is 2, *)
(* 44100 Hz is 4) and durations in half seconds, so that a signal is a     *)
(* handful of samples long; the default n_fft, hop_length and duration are *)
(* small stand-ins.  The row counts of the analyzers and the layout of the *)
(* feature vector keep their real values.                                  *)
(***************************************************************************)
EXTENDS Integers, Sequences, FiniteSets, TLC

(***************************************************************************)
(* Bounds of the model                                                     *)
(***************************************************************************)
MaxLen == 4          \* longest input signal, in samples
MaxRate == 3         \* sample rates 1..MaxRate
MaxHalfSec == 3      \* durations 1.0 s .. MaxHalfSec/2 s
MaxFft == 3          \* n_fft in 1..MaxFft
MaxHop == 2          \* hop_length in 1..MaxHop
MaxMfcc == 2         \* n_mfcc in 1..MaxMfcc of an extractor built with arguments
MaxFeature == 2      \* components of a stored vector are 1..MaxFeature

(***************************************************************************)
(* Defaults of AudioFeatureExtractor.__init__ and the literals of the      *)
(* client and of the route.                                                *)
(***************************************************************************)
default_sample_rate == 2     \* sample_rate=22050, in units of 11025 Hz
default_n_mels == 128        \* n_mels=128
default_n_mfcc == 20         \* n_mfcc=20
request_sr == 2              \* extract_features(..., sr = 22050), same unit
route_default_rate == 4      \* "else 44100", same unit
default_n_fft == 2           \* stands for n_fft=2048
default_hop_length == 1      \* stands for hop_length=512
default_duration2 == 3       \* stands for duration=30.0: 1.5 s

(***************************************************************************)
(* Row counts of the librosa analyzers called with their defaults          *)
(***************************************************************************)
contrast_rows == 7           \* spectral_contrast: n_bands + 1
tempogram_rows == 384        \* tempogram: win_length
chroma_rows == 12            \* chroma_stft: n_chroma
tonnetz_rows == 6            \* tonnetz: six tonal-centroid dimensions

(***************************************************************************)
(* Arithmetic helpers                                                      *)
(***************************************************************************)
\* Python int(a / b) for b > 0: true division, then truncation toward zero.
IntOfQuotient(a, b) == IF a >= 0 THEN a \div b ELSE -((-a) \div b)

\* ceil(a / b) for a >= 0, b > 0.
CeilDiv(a, b) == (a + b - 1) \div b

Min(a, b) == IF a <= b THEN a ELSE b

Fill(n, v) == [i \in 1..n |-> v]

RECURSIVE Flatten(_)
Flatten(ss) == IF ss = <<>> THEN <<>> ELSE Head(ss) \o Flatten(Tail(ss))

SeqsUpTo(S, n) == UNION {[1..k -> S] : k \in 0..n}

\* A signal of n samples, each its own position: pad, trim and resample do
\* not look at the values, so what becomes of every sample stays visible.
Ramp(n) == [i \in 1..n |-> i]

(***************************************************************************)
(* AudioFeatureExtractor.__init__                                          *)
(***************************************************************************)
NewExtractor(sample_rate, n_fft, hop_length, n_mels, n_mfcc, duration2) ==
    LET fixed_length == (duration2 * sample_rate) \div 2
    IN  [sample_rate |-> sample_rate, n_fft |-> n_fft, hop_length |-> hop_length,
         n_mels |-> n_mels, n_mfcc |-> n_mfcc, duration2 |-> duration2,
         fixed_length |-> fixed_length,
         n_frames |-> 1 + IntOfQuotient(fixed_length - n_fft, hop_length)]

\* AudioFeatureExtractor(): the extractor the client builds.
DefaultExtractor ==
    NewExtractor(default_sample_rate, default_n_fft, default_hop_length,
                 default_n_mels, default_n_mfcc, default_duration2)

Extractors ==
    {NewExtractor(r, f, h, default_n_mels, m, d) :
        r \in 1..MaxRate, f \in 1..MaxFft, h \in 1..MaxHop,
        m \in 1..MaxMfcc, d \in 2..MaxHalfSec}
    \cup {DefaultExtractor}

(***************************************************************************)
(* extract_features: resample, then pad or trim                            *)
(***************************************************************************)
\* librosa.resample: the output has ceil(len * target_sr / orig_sr) samples.
\* The band-limited interpolation is abstracted to sample-and-hold.
Resample(audio, orig_sr, target_sr) ==
    [i \in 1..CeilDiv(Len(audio) * target_sr, orig_sr) |->
        audio[((i - 1) * orig_sr) \div target_sr + 1]]

\* Variant: the zeros on the left.
PadLeft(audio, n) == Fill(n, 0) \o audio

\* np.pad(audio, (0, n)): n zeros on the right.
PadRight(audio, n) == audio \o Fill(n, 0)

\* "Resample if necessary"
MaybeResample(self, audio, sr) ==
    IF sr # self.sample_rate THEN Resample(audio, sr, self.sample_rate) ELSE audio

\* Variant: a signal that is too long is left as it is.
FixLengthNoTrim(self, audio) ==
    IF Len(audio) < self.fixed_length
    THEN PadRight(audio, self.fixed_length - Len(audio))
    ELSE audio

\* "Ensure consistent length"
FixLength(self, audio) ==
    IF Len(audio) < self.fixed_length
    THEN PadRight(audio, self.fixed_length - Len(audio))
    ELSE IF Len(audio) > self.fixed_length
         THEN SubSeq(audio, 1, self.fixed_length)
         ELSE audio

(***************************************************************************)
(* The analyzers, by the shape <<rows, columns>> of what they return.      *)
(* librosa frames a centred signal: 1 + len(y) // hop_length columns.      *)
(***************************************************************************)
Frames(self, y) == 1 + Len(y) \div self.hop_length

AnalyzerShapes(self, y) ==
    [mel_spectrogram |-> <<self.n_mels, Frames(self, y)>>,
     mfccs |-> <<self.n_mfcc, Frames(self, y)>>,
     spectral_centroid |-> <<1, Frames(self, y)>>,
     spectral_bandwidth |-> <<1, Frames(self, y)>>,
     spectral_flatness |-> <<1, Frames(self, y)>>,
     spectral_contrast |-> <<contrast_rows, Frames(self, y)>>,
     spectral_rolloff |-> <<1, Frames(self, y)>>,
     zero_crossing_rate |-> <<1, Frames(self, y)>>,
     tempogram |-> <<tempogram_rows, Frames(self, y)>>,
     chroma |-> <<chroma_rows, Frames(self, y)>>,
     tonnetz |-> <<tonnetz_rows, Frames(self, y)>>]

\* Variant: reduced along axis 0, one value per frame.
AlongFramesAxis0(shape) == shape[2]

\* np.mean(x, axis=1), np.std(x, axis=1): one value per row.
AlongFrames(shape) == shape[1]

\* np.mean(x), np.std(x), tempo: a scalar, wrapped as np.array([.]).
Scalar == 1

\* The features dictionary, by the length of each entry.
FeatureLengths(self, y) ==
    LET s == AnalyzerShapes(self, y)
    IN  [mfcc_mean |-> AlongFrames(s.mfccs),
         mfcc_std |-> AlongFrames(s.mfccs),
         centroid_mean |-> Scalar, centroid_std |-> Scalar,
         bandwidth_mean |-> Scalar, bandwidth_std |-> Scalar,
         flatness_mean |-> Scalar, flatness_std |-> Scalar,
         contrast_mean |-> AlongFrames(s.spectral_contrast),
         rolloff_mean |-> Scalar,
         zcr_mean |-> Scalar, zcr_std |-> Scalar,
         tempo |-> Scalar,
         tempogram_mean |-> AlongFrames(s.tempogram),
         chroma_mean |-> AlongFrames(s.chroma),
         tonnetz_mean |-> AlongFrames(s.tonnetz)]

\* create_feature_vector: the sixteen parts, concatenated in this order.
\* What the analyzers compute is left open: an entry holds the number of
\* the part it belongs to.
create_feature_vector(features) ==
    Flatten(<<Fill(features.mfcc_mean, 1), Fill(features.mfcc_std, 2),
              Fill(features.centroid_mean, 3), Fill(features.centroid_std, 4),
              Fill(features.bandwidth_mean, 5), Fill(features.bandwidth_std, 6),
              Fill(features.flatness_mean, 7), Fill(features.flatness_std, 8),
              Fill(features.contrast_mean, 9), Fill(features.rolloff_mean, 10),
              Fill(features.zcr_mean, 11), Fill(features.zcr_std, 12),
              Fill(features.tempo, 13), Fill(features.tempogram_mean, 14),
              Fill(features.chroma_mean, 15), Fill(features.tonnetz_mean, 16)>>)

\* extract_features(audio, sr): what it did and what it returns.
extract_features(self, audio, sr) ==
    LET resampled == MaybeResample(self, audio, sr)
        y == FixLength(self, resampled)
    IN  [input |-> audio, sr |-> sr,
         resampled |-> (sr # self.sample_rate),
         after_resample |-> resampled,
         normalized |-> y,
         feature_vector |-> create_feature_vector(FeatureLengths(self, y))]

(***************************************************************************)
(* The corpus store: collection Known_Music of database Music_Data, a      *)
(* sequence of documents in natural (insertion) order.                     *)
(***************************************************************************)
Paths == {"a", "b"}
MaxDim == 2          \* stored vectors have 1..MaxDim components
MaxSongs == 2        \* songs in the data directory
MaxFiles == 2        \* files in the data directory

Vectors == UNION {[1..d -> 1..MaxFeature] : d \in 1..MaxDim}

Songs == [path : Paths, feature_vector : Vectors]

RECURSIVE SumLen(_)
SumLen(ss) == IF ss = <<>> THEN 0 ELSE Len(Head(ss)) + SumLen(Tail(ss))

\* The *.json files of data_path in glob order, each by its 'songs' list.
DataDirs ==
    {d \in SeqsUpTo(SeqsUpTo(Songs, MaxSongs), MaxFiles) : SumLen(d) <= MaxSongs}

\* songs.update_one({"file_name": path}, {"$set": {...}}, upsert=True)
update_one_upsert(coll, path, song_vec, i) ==
    LET doc == [file_name |-> path, features |-> song_vec, genre_index |-> i]
    IN  IF \E j \in 1..Len(coll) : coll[j].file_name = path
        THEN [j \in 1..Len(coll) |->
                 IF coll[j].file_name = path THEN doc ELSE coll[j]]
        ELSE Append(coll, doc)

\* for song in data['songs']: the first n songs of one file are upserted
\* (n < Len(file): the song after them raised, and the rest of the file is
\* skipped by "except Exception as e").
RECURSIVE UpsertFile(_, _, _, _)
UpsertFile(coll, file, i, n) ==
    IF n = 0 THEN coll
    ELSE update_one_upsert(UpsertFile(coll, file, i, n - 1),
                           file[n].path, file[n].feature_vector, i)

\* for i, file in enumerate(glob(...)): genre_index i counts from 0.
RECURSIVE UpsertFiles(_, _, _, _)
UpsertFiles(coll, dir, cut, k) ==
    IF k = 0 THEN coll
    ELSE UpsertFile(UpsertFiles(coll, dir, cut, k - 1), dir[k], k - 1, cut[k])

\* How far each file is read before it raises; Len(file) is "to the end".
Cuts(dir) == {c \in [1..Len(dir) -> 0..MaxSongs] : \A k \in 1..Len(dir) : c[k] <= Len(dir[k])}

NoCut(dir) == [k \in 1..Len(dir) |-> Len(dir[k])]

\* Variant: the collection is not looked at.
AnyCollection(coll) == TRUE

\* "if songs.count_documents({}) == 0"
CollectionIsEmpty(coll) == Len(coll) = 0

\* insert_init_collection: reachable is whether the store answers
\* get_database / count_documents (if not, the outer except swallows it).
insert_init_collection(coll, dir, reachable, cut) ==
    IF reachable /\ CollectionIsEmpty(coll)
    THEN UpsertFiles(coll, dir, cut, Len(dir))
    ELSE coll

(***************************************************************************)
(* $vectorSearch.  The similarity function belongs to the definition of    *)
(* index "vector-index", which is not in the repository: it is one of the  *)
(* three the store offers.  A score is kept by the three inner products    *)
(* that determine it under each of them.                                   *)
(***************************************************************************)
Similarities == {"euclidean", "cosine", "dotProduct"}

limit == 10          \* "limit": 10

\* Inner product of two vectors of the same length, summed by halves.
RECURSIVE DotRange(_, _, _, _)
DotRange(a, b, lo, hi) ==
    IF lo > hi THEN 0
    ELSE IF lo = hi THEN a[lo] * b[lo]
    ELSE LET mid == (lo + hi) \div 2
         IN  DotRange(a, b, lo, mid) + DotRange(a, b, mid + 1, hi)

Dot(a, b) == DotRange(a, b, 1, Len(a))

Score(q, v) == [dot |-> Dot(q, v), qq |-> Dot(q, q), vv |-> Dot(v, v)]

SquaredDistance(s) == s.qq - 2 * s.dot + s.vv

\* cos s < cos t, by cross-multiplication of dot / sqrt(qq * vv).
CosineLess(s, t) ==
    LET ns == s.qq * s.vv
        nt == t.qq * t.vv
    IN  IF s.dot < 0 /\ t.dot >= 0 THEN TRUE
        ELSE IF s.dot >= 0 /\ t.dot < 0 THEN FALSE
        ELSE IF s.dot >= 0 THEN s.dot * s.dot * nt < t.dot * t.dot * ns
        ELSE s.dot * s.dot * nt > t.dot * t.dot * ns

\* vectorSearchScore of s is lower than that of t:
\* euclidean 1 / (1 + d^2), cosine (1 + cos) / 2, dotProduct (1 + dot) / 2.
ScoreLess(metric, s, t) ==
    CASE metric = "euclidean" -> SquaredDistance(s) > SquaredDistance(t)
      [] metric = "cosine" -> CosineLess(s, t)
      [] metric = "dotProduct" -> s.dot < t.dot

\* Ranking by descending score.  Documents are taken in natural order; one
\* that ties with documents already ranked goes after them (natural order
\* kept) or before them (reversed): the store does not say which.
RECURSIVE InsertRanked(_, _, _, _)
InsertRanked(metric, x, ranked, ties_natural) ==
    IF ranked = <<>> THEN <<x>>
    ELSE IF ScoreLess(metric, Head(ranked).score, x.score)
            \/ (~ties_natural /\ ~ScoreLess(metric, x.score, Head(ranked).score))
         THEN <<x>> \o ranked
         ELSE <<Head(ranked)>> \o InsertRanked(metric, x, Tail(ranked), ties_natural)

RECURSIVE Ranked(_, _, _, _)
Ranked(metric, docs, n, ties_natural) ==
    IF n = 0 THEN <<>>
    ELSE InsertRanked(metric, docs[n], Ranked(metric, docs, n - 1, ties_natural),
                      ties_natural)

\* "$project": file_name, genre_index, score; _id dropped.
Scored(coll, q) ==
    [j \in 1..Len(coll) |->
        [file_name |-> coll[j].file_name, genre_index |-> coll[j].genre_index,
         score |-> Score(q, coll[j].features)]]

\* The documents whose vector the query can be compared with.
Comparable(coll, q) == SelectSeq(coll, LAMBDA d : Len(d.features) = Len(q))

RECURSIVE Reverse(_)
Reverse(r) == IF r = <<>> THEN <<>> ELSE Append(Reverse(Tail(r)), Head(r))

\* Variant: the neighbours are returned last first.
run_query_reversed(coll, metric, query_embedding, up, strict, ties_natural) ==
    LET docs == Comparable(coll, query_embedding)
        ranked == Ranked(metric, Scored(docs, query_embedding), Len(docs), ties_natural)
    IN  IF ~up \/ (strict /\ Len(docs) # Len(coll))
        THEN [query_embedding |-> query_embedding, raised |-> TRUE, returned |-> <<>>]
        ELSE [query_embedding |-> query_embedding, raised |-> FALSE,
              returned |-> Reverse(SubSeq(ranked, 1, Min(limit, Len(ranked))))]

\* Variant: no neighbour is an error.
run_query_no_result_raises(coll, metric, query_embedding, up, strict, ties_natural) ==
    LET docs == Comparable(coll, query_embedding)
        ranked == Ranked(metric, Scored(docs, query_embedding), Len(docs), ties_natural)
    IN  IF ~up \/ (strict /\ Len(docs) # Len(coll)) \/ ranked = <<>>
        THEN [query_embedding |-> query_embedding, raised |-> TRUE, returned |-> <<>>]
        ELSE [query_embedding |-> query_embedding, raised |-> FALSE,
              returned |-> SubSeq(ranked, 1, Min(limit, Len(ranked)))]

\* run_query(query_embedding): coll.aggregate(pipeline), unpacked to a list.
\*   up: the store answers; strict: the store fails the aggregate when a
\*   stored vector has another length than the query (otherwise it leaves
\*   such documents out).  run_query itself compares no lengths.
run_query(coll, metric, query_embedding, up, strict, ties_natural) ==
    LET docs == Comparable(coll, query_embedding)
        ranked == Ranked(metric, Scored(docs, query_embedding), Len(docs), ties_natural)
    IN  IF ~up \/ (strict /\ Len(docs) # Len(coll))
        THEN [query_embedding |-> query_embedding, raised |-> TRUE, returned |-> <<>>]
        ELSE [query_embedding |-> query_embedding, raised |-> FALSE,
              returned |-> SubSeq(ranked, 1, Min(limit, Len(ranked)))]


(***************************************************************************)
(* process_vector_request and the route                                    *)
(***************************************************************************)
\* An uploaded clip: whether pydub decodes it, and its samples.
ClipSamples == {Ramp(0), Ramp(1), Ramp(MaxLen)}

AudioFiles == [decodable : BOOLEAN, samples : ClipSamples]

\* process_vector_request(self, audio_file): decode, extract with
\* sr = 22050, query.  An exception of any stage propagates.
process_vector_request(self, coll, metric, audio_file, up, strict, ties_natural) ==
    IF ~audio_file.decodable
    THEN [raised |-> TRUE, stage |-> "decode", resampled |-> FALSE, returned |-> <<>>]
    ELSE LET x == extract_features(self, audio_file.samples, request_sr)
             r == run_query(coll, metric, x.feature_vector, up, strict, ties_natural)
         IN  [raised |-> r.raised, stage |-> "query", resampled |-> x.resampled,
              normalized |-> x.normalized, returned |-> r.returned]

\* The parameters process_vector_request takes besides self.
process_vector_request_arity == 1

\* client.process_vector_request(*args): a call with another number of
\* positional arguments raises TypeError before the body runs.
call_process_vector_request(self, coll, metric, args, up, strict, ties_natural) ==
    IF Len(args) # process_vector_request_arity
    THEN [raised |-> TRUE, stage |-> "call", resampled |-> FALSE, returned |-> <<>>]
    ELSE process_vector_request(self, coll, metric, args[1], up, strict, ties_natural)

\* request.files of a POST to /classify_genre
SuppliedRates == {default_sample_rate, route_default_rate}

Requests ==
    {[f \in {} |-> 0]}
    \cup {[audio |-> a] : a \in AudioFiles}
    \cup {[sample_rate |-> r] : r \in SuppliedRates}
    \cup {[audio |-> a, sample_rate |-> r] : a \in AudioFiles, r \in SuppliedRates}

\* sampling_rate if sampling_rate is not None else 44100
SamplingRate(files) ==
    IF "sample_rate" \in DOMAIN files THEN files.sample_rate ELSE route_default_rate

\* classify_genre: the response, with what the call did.  A returned list
\* is then indexed with 'file_paths', which raises TypeError as well; every
\* exception ends in the route's "except Exception".
classify_genre(self, coll, metric, files, up, strict, ties_natural) ==
    IF "audio" \in DOMAIN files
    THEN LET matches == call_process_vector_request(
                 self, coll, metric, <<files.audio, SamplingRate(files)>>,
                 up, strict, ties_natural)
         IN  [status |-> "500", message |-> "internal server error",
              call |-> matches]
    ELSE [status |-> "400", message |-> "no file found in request!"]

(***************************************************************************)
(* State                                                                   *)
(***************************************************************************)
VARIABLES
    extractor,       \* the AudioFeatureExtractor in use
    feature_jsons,   \* the data directory: files in glob order
    similarity,      \* similarity function of index "vector-index"
    songs,           \* the documents of Known_Music
    bootstrap,       \* "none", or how the run that filled the store went
    clean_run,       \* some ingestion run met no failure at all
    last             \* the last operation, its inputs and its outcome

vars == <<extractor, feature_jsons, similarity, songs, bootstrap, clean_run, last>>

Signals == {Ramp(n) : n \in 0..MaxLen}

InitCommon ==
    /\ songs = <<>>
    /\ bootstrap = "none"
    /\ clean_run = FALSE
    /\ last = [op |-> "none"]

\* The service: the client of routes.py with its default extractor, before
\* the first start of the process, the store still empty; the data
\* directory holds at most one file of at most one song.
Init ==
    /\ extractor = DefaultExtractor
    /\ feature_jsons \in {d \in DataDirs : Len(d) <= 1 /\ SumLen(d) <= 1}
    /\ similarity \in Similarities
    /\ InitCommon

\* The client and its store alone, over every data directory.
InitStore ==
    /\ extractor = DefaultExtractor
    /\ feature_jsons \in DataDirs
    /\ similarity \in Similarities
    /\ InitCommon

\* An extractor built with arguments, on its own, and one call of
\* extract_features about to be made on it.
InitExtractor ==
    /\ extractor \in Extractors
    /\ feature_jsons = <<>>
    /\ similarity = "euclidean"
    /\ songs = <<>>
    /\ bootstrap = "none"
    /\ clean_run = FALSE
    /\ last \in [op : {"call"}, audio : Signals, sr : 1..MaxRate]

\* MusicMongoClient.__init__ at the start of a process: insert_init_collection.
Startup ==
    \E reachable \in BOOLEAN, cut \in Cuts(feature_jsons) :
        LET after == insert_init_collection(songs, feature_jsons, reachable, cut)
            clean == reachable /\ cut = NoCut(feature_jsons)
        IN  /\ songs' = after
            /\ bootstrap' = IF songs = <<>> /\ after # <<>>
                            THEN (IF clean THEN "clean" ELSE "partial")
                            ELSE bootstrap
            /\ clean_run' = (clean_run \/ clean)
            /\ last' = [op |-> "insert_init_collection", clean |-> clean,
                        started_empty |-> (songs = <<>>)]
            /\ UNCHANGED <<extractor, feature_jsons, similarity>>

\* extractor.extract_features(audio, sr)
ExtractFeatures ==
    /\ last.op = "call"
    /\ last' = [op |-> "extract_features",
                call |-> extract_features(extractor, last.audio, last.sr)]
    /\ UNCHANGED <<extractor, feature_jsons, similarity, songs, bootstrap, clean_run>>

\* client.run_query(query_embedding)
RunQuery ==
    /\ last.op # "none"
    /\ \E q \in Vectors, up \in BOOLEAN, strict \in BOOLEAN, ties_natural \in BOOLEAN :
        /\ last' = [op |-> "run_query", up |-> up,
                    call |-> run_query(songs, similarity, q, up, strict, ties_natural)]
        /\ UNCHANGED <<extractor, feature_jsons, similarity, songs, bootstrap, clean_run>>

\* client.process_vector_request(audio_file)
ProcessVectorRequest ==
    /\ last.op # "none"
    /\ \E a \in AudioFiles, up \in BOOLEAN, strict \in BOOLEAN, ties_natural \in BOOLEAN :
        /\ last' = [op |-> "process_vector_request", audio_file |-> a, up |-> up,
                    call |-> call_process_vector_request(
                                 extractor, songs, similarity, <<a>>, up, strict,
                                 ties_natural)]
        /\ UNCHANGED <<extractor, feature_jsons, similarity, songs, bootstrap, clean_run>>

\* POST /classify_genre
ClassifyGenre ==
    /\ last.op # "none"
    /\ \E files \in Requests, up \in BOOLEAN, strict \in BOOLEAN, ties_natural \in BOOLEAN :
        /\ last' = [op |-> "classify_genre", files |-> files, up |-> up,
                    strict |-> strict, ties_natural |-> ties_natural,
                    response |-> classify_genre(extractor, songs, similarity, files,
                                                up, strict, ties_natural)]
        /\ UNCHANGED <<extractor, feature_jsons, similarity, songs, bootstrap, clean_run>>

Next == Startup \/ RunQuery \/ ProcessVectorRequest \/ ClassifyGenre

Spec == Init /\ [][Next]_vars

NextStore == Startup \/ RunQuery

StoreSpec == InitStore /\ [][NextStore]_vars

NextExtractor == ExtractFeatures

ExtractorSpec == InitExtractor /\ [][NextExtractor]_vars


(***************************************************************************)
(* The extractor                                                           *)
(***************************************************************************)
Extracted == last.op = "extract_features"

\* D = int(duration * sample_rate)
D == (extractor.duration2 * extractor.sample_rate) \div 2

\* C1: whatever the length of the input and whatever its rate, the signal
\* handed to the analyzers after resampling and padding or trimming has
\* exactly D = int(duration * sample_rate) samples.
C1_NormalizedLength ==
    Extracted => Len(last.call.normalized) = D

\* An input of another rate that is still longer than D once resampled.
C1_Witness ==
    /\ Extracted
    /\ last.call.resampled
    /\ Len(last.call.after_resample) > D
    /\ Len(last.call.normalized) = D

\* C2: without resampling, an input shorter than D comes out unchanged and
\* followed by zeros up to D, a longer one comes out as its first D samples,
\* and one of length D comes out unchanged.
C2_PadTruncate ==
    (Extracted /\ ~last.call.resampled) =>
        LET x == last.call.input
            y == last.call.normalized
        IN  /\ Len(x) < D =>
                /\ Len(y) = D
                /\ \A i \in 1..Len(x) : y[i] = x[i]
                /\ \A i \in (Len(x) + 1)..D : y[i] = 0
            /\ Len(x) > D =>
                /\ Len(y) = D
                /\ \A i \in 1..D : y[i] = x[i]
            /\ Len(x) = D => y = x

\* A non-empty input, not resampled, that needed padding.
C2_Witness ==
    /\ Extracted
    /\ ~last.call.resampled
    /\ Len(last.call.input) > 0
    /\ Len(last.call.input) < D
    /\ last.call.normalized[D] = 0

\* The length the configuration alone gives the feature vector.
ConfiguredLength(self) ==
    2 * self.n_mfcc + 6 + contrast_rows + 3 + 1
    + tempogram_rows + chroma_rows + tonnetz_rows

\* C7: for a fixed configuration the feature vector has the same length for
\* every input (empty, one sample, shorter or longer than D): the sum of
\* the lengths of its sixteen parts, which the configuration fixes.
C7_FixedVectorLength ==
    Extracted => Len(last.call.feature_vector) = ConfiguredLength(extractor)

\* An empty input, resampled, gives a vector of the configured length.
C7_Witness ==
    /\ Extracted
    /\ Len(last.call.input) = 0
    /\ last.call.resampled
    /\ Len(last.call.feature_vector) = ConfiguredLength(extractor)

\* C10: the frame count the constructor stores is
\* 1 + floor((D - n_fft) / hop_length), also when D < n_fft.
C10_FrameCountIsFloor ==
    extractor.n_frames = 1 + ((D - extractor.n_fft) \div extractor.hop_length)


(***************************************************************************)
(* The matching engine                                                     *)
(***************************************************************************)
Queried == last.op = "run_query"

\* Some stored vector has another length than the query.
Mismatch(q) == \E j \in 1..Len(songs) : Len(songs[j].features) # Len(q)

SameScore(s, t) == ~ScoreLess(similarity, s, t) /\ ~ScoreLess(similarity, t, s)

\* The scores of a returned list never increase from one record to the next.
NonIncreasing(r) ==
    \A k \in 1..(Len(r) - 1) : ~ScoreLess(similarity, r[k].score, r[k + 1].score)

\* The first record of r scores at least as high as every stored vector.
FirstIsMaximal(r, q) ==
    \A j \in 1..Len(songs) :
        ~ScoreLess(similarity, r[1].score, Score(q, songs[j].features))

\* C4: when the query's length differs from that of a stored vector,
\* run_query ends in an error and returns no match list.
C4_MismatchIsError ==
    (Queried /\ Mismatch(last.call.query_embedding)) =>
        (last.call.raised /\ last.call.returned = <<>>)

C6_EmptyCorpus ==
    (Queried /\ songs = <<>> /\ last.up) =>
        (~last.call.raised /\ last.call.returned = <<>>)

\* A query answered over the empty store.
C6_Witness ==
    /\ Queried
    /\ songs = <<>>
    /\ last.up
    /\ ~last.call.raised
    /\ last.call.returned = <<>>

(***************************************************************************)
(* Ingestion                                                               *)
(***************************************************************************)
\* What one run with no failure leaves in an empty store.
CompleteRun ==
    insert_init_collection(<<>>, feature_jsons, TRUE, NoCut(feature_jsons))

OnePerPath ==
    \A j, k \in 1..Len(songs) : songs[j].file_name = songs[k].file_name => j = k

Classified == last.op = "classify_genre" /\ "audio" \in DOMAIN last.files

\* C3: a classify request whose source rate (the one supplied, or the
\* default capture rate) differs from the target rate has its signal
\* resampled to the target rate.
C3_ResampledWhenRatesDiffer ==
    (Classified /\ last.files.audio.decodable
                /\ SamplingRate(last.files) # extractor.sample_rate) =>
        last.response.call.resampled

\* What decoding, extraction and the query give for the request's clip.
Stages ==
    process_vector_request(extractor, songs, similarity, last.files.audio,
                           last.up, last.strict, last.ties_natural)

\* C9: a request with an audio file is answered with the match list when
\* decoding, extraction and the query all succeed, and with an error only
\* when one of them failed.
C9_MatchesOrStageError ==
    Classified =>
        /\ ~Stages.raised => last.response.status = "200"
        /\ last.response.status = "500" => Stages.raised

=============================================================================
